---- MODULE Spec2Model ----
(***************************************************************************)
(* State-machine model of src/src/types/index.ts: the catalog              *)
(* (CatalogList), the basket (BasketList, BasketPopup.getTotal), the       *)
(* order check of FakeItemsAPI.postOrder and the form validity of          *)
(* OrderPopup.                                                             *)
(*                                                                         *)
(* JavaScript values are tagged records, so that `undefined`, numbers,     *)
(* strings and arrays can be held by the same variable and compared.       *)
(* Strings that the code inspects character by character (trim) are        *)
(* sequences of one-character strings.  The Russian string literals of     *)
(* the source are transliterated: the module's lexer accepts ASCII only.   *)
(***************************************************************************)
EXTENDS Integers, Sequences, FiniteSets, TLC

VARIABLES
  catalogTotal,  \* CatalogList.total
  catalogItems,  \* CatalogList._items
  loadPc,        \* position of the one load() call: idle, awaiting, line119
  loadData,      \* the local `data` of load() once the await has returned
  loadPre,       \* (total, _items) when load() was called (history)
  loadOutcome,   \* none, resolved, rejected: how the last load() ended
  console,       \* the last line written by console.log
  basketItems,   \* BasketList._items
  fields,        \* OrderPopup.fields
  call,          \* the operation executed by the last step, with its arguments
  thrown,        \* the exception the last step raised, "none" otherwise
  returned       \* the value the last step returned

vars == <<catalogTotal, catalogItems, loadPc, loadData, loadPre, loadOutcome,
          console, basketItems, fields, call, thrown, returned>>

catalogVars == <<catalogTotal, catalogItems, loadPc, loadData, loadPre,
                 loadOutcome, console>>

----------------------------------------------------------------------------
(* Bounds of the model                                                     *)

MaxRemote == 1        \* other collaborators report totals and item counts 0..MaxRemote
MaxIndex == 10        \* itemClick and the like are called with -1..MaxIndex
MaxBasketLen == 3     \* addItem is called while the basket is shorter than this
MaxBasketChoice == 3  \* the first MaxBasketChoice catalog items can be put in the basket
MaxOrderItems == 2    \* an order lists at most this many ids
MaxTotal == 6         \* an order states a total in 0..MaxTotal
MaxText == 2          \* a text field holds at most this many characters

----------------------------------------------------------------------------
(* JavaScript values                                                       *)

Undefined == [type |-> "undefined"]
Num(n) == [type |-> "number", val |-> n]
Bool(b) == [type |-> "boolean", val |-> b]
Str(cs) == [type |-> "string", chars |-> cs]
Arr(s) == [type |-> "array", elems |-> s]

Min(a, b) == IF a < b THEN a ELSE b
Max(a, b) == IF a > b THEN a ELSE b

\* All sequences over S of length at most n.
SeqUpTo(S, n) == UNION {[1..k -> S] : k \in 0..n}

\* The operation of a step and its arguments; the arguments an operation
\* does not take keep these defaults.
NoCall == [op |-> "none", index |-> 0, item |-> Undefined, order |-> Undefined,
           value |-> Undefined]

----------------------------------------------------------------------------
(* FakeItemsAPI: the canonical data                                        *)

FakeTotal == 10

DataIds == <<"0", "1", "2", "3", "4", "5", "6", "7", "8", "9">>

\* The n-th record of FakeItemsAPI.data, n = 0..9.
ItemModel(n) ==
  [id |-> DataIds[n + 1],
   name |-> "Tovar " \o DataIds[n + 1],
   price |-> n,
   category |-> "Kategoriya " \o DataIds[n + 1],
   image |-> "Image " \o DataIds[n + 1] \o ".jpg",
   description |-> "Opisanie " \o DataIds[n + 1]]

FakeData == [i \in 1..Len(DataIds) |-> ItemModel(i - 1)]

\* FakeItemsAPI.loadItemsList
FakeItemsList == [total |-> FakeTotal, items |-> FakeData]

\* What an IListAPI collaborator may answer: the fake's list, or a list
\* whose reported total and item count are independent small numbers.
ListResponses ==
  {FakeItemsList} \cup
  {[total |-> t, items |-> SubSeq(FakeData, 1, n)] :
     t \in 0..MaxRemote, n \in 0..MaxRemote}

----------------------------------------------------------------------------
(* Items                                                                   *)

\* new CatalogItem(data)
CatalogItem(data) ==
  [id |-> data.id, name |-> data.name, price |-> data.price,
   category |-> data.category, image |-> data.image,
   description |-> data.description]

\* new BasketItem(data)
BasketItem(data) ==
  [id |-> data.id, name |-> data.name, price |-> data.price]

----------------------------------------------------------------------------
(* CatalogList                                                             *)

\* Observable if load() gave up control between its two assignments.
ObservableBetweenAssignments == TRUE

\* JavaScript runs a callback to its end before any other callback starts:
\* the state is visible to other code only where load() is suspended at its
\* one await (line 117) or has returned, not between lines 118 and 119.
Observable == loadPc # "line119"

\* data.items.map(itemData => new this._ItemConstructor(itemData))
MapItems(items) == [i \in 1..Len(items) |-> CatalogItem(items[i])]

\* The line itemClick writes to the console.
ClickLine(itemIndex) == "Otkrytie kartochki s tovarom " \o ToString(itemIndex)

\* CatalogList.load, up to its await.  The program has one load outstanding
\* at a time (it calls load once and goes on in its then-callback).
Load ==
  /\ Observable
  /\ loadPc = "idle"
  /\ loadPc' = "awaiting"
  /\ loadPre' = [total |-> catalogTotal, items |-> catalogItems]
  /\ loadData' = Undefined
  /\ loadOutcome' = "pending"
  /\ call' = [NoCall EXCEPT !.op = "load"]
  /\ thrown' = "none"
  /\ returned' = Undefined
  /\ UNCHANGED <<catalogTotal, catalogItems, console, basketItems, fields>>

\* The collaborator's promise is fulfilled with r: load() resumes at line 117
\* and executes line 118.
LoadAssignTotal(r) ==
  /\ loadPc = "awaiting"
  /\ loadData' = r
  /\ catalogTotal' = Num(r.total)
  /\ loadPc' = "line119"
  /\ call' = [NoCall EXCEPT !.op = "load:118"]
  /\ UNCHANGED <<catalogItems, loadPre, loadOutcome, console, basketItems,
                 fields, thrown, returned>>

\* Line 119, and the end of load().
LoadAssignItems ==
  /\ loadPc = "line119"
  /\ catalogItems' = Arr(MapItems(loadData.items))
  /\ loadPc' = "idle"
  /\ loadOutcome' = "resolved"
  /\ call' = [NoCall EXCEPT !.op = "load:119"]
  /\ UNCHANGED <<catalogTotal, loadData, loadPre, console, basketItems,
                 fields, thrown, returned>>

\* The collaborator's promise is rejected: the await at line 117 throws and
\* load() ends, its own promise rejected, before line 118.
LoadReject ==
  /\ loadPc = "awaiting"
  /\ loadPc' = "idle"
  /\ loadOutcome' = "rejected"
  /\ call' = [NoCall EXCEPT !.op = "load:reject"]
  /\ UNCHANGED <<catalogTotal, catalogItems, loadData, loadPre, console,
                 basketItems, fields, thrown, returned>>

\* CatalogList.itemClick
ItemClick(itemIndex) ==
  /\ Observable
  /\ console' = ClickLine(itemIndex)
  /\ call' = [NoCall EXCEPT !.op = "itemClick", !.index = itemIndex]
  /\ thrown' = "none"
  /\ returned' = Undefined
  /\ UNCHANGED <<catalogTotal, catalogItems, loadPc, loadData, loadPre,
                 loadOutcome, basketItems, fields>>

CatalogNext ==
  \/ Load
  \/ \E r \in ListResponses : LoadAssignTotal(r)
  \/ LoadAssignItems
  \/ LoadReject
  \/ \E i \in -1..MaxIndex : ItemClick(i)

----------------------------------------------------------------------------
(* FakeItemsAPI.postOrder                                                  *)

\* !v for a value that is a string or undefined
Falsy(v) == v.type = "undefined" \/ (v.type = "string" /\ Len(v.chars) = 0)

\* this.data.some(item => item.id === orderedItemId)
itemExists(orderedItemId) ==
  \E i \in 1..Len(FakeData) : FakeData[i].id = orderedItemId

\* this.data.find(item => item.id === itemId): the first match, or undefined
FindItem(itemId) ==
  IF \E i \in 1..Len(FakeData) : FakeData[i].id = itemId
  THEN FakeData[CHOOSE i \in 1..Len(FakeData) :
                  /\ FakeData[i].id = itemId
                  /\ \A j \in 1..(i - 1) : FakeData[j].id # itemId]
  ELSE Undefined

\* item?.price || 0
PriceOrZero(item) ==
  IF item = Undefined THEN 0
  ELSE IF item.price = 0 THEN 0 ELSE item.price

\* The for loop of lines 170-175 from position i on: the position at which
\* it returns, or 0 when it runs to the end.
RECURSIVE FirstMissingFrom(_, _)
FirstMissingFrom(items, i) ==
  IF i > Len(items) THEN 0
  ELSE IF ~itemExists(items[i]) THEN i
  ELSE FirstMissingFrom(items, i + 1)

\* calculatedTotal with a slip: each distinct id is priced once.
calculatedTotalDistinct(items) ==
  LET ids == {items[i] : i \in 1..Len(items)}
      RECURSIVE SumOver(_)
      SumOver(S) == IF S = {} THEN 0
                    ELSE LET x == CHOOSE x \in S : TRUE
                         IN PriceOrZero(FindItem(x)) + SumOver(S \ {x})
  IN SumOver(ids)

\* orderInfo.items.reduce((sum, itemId) => ..., 0), lines 178-181
RECURSIVE ReduceTotal(_, _, _)
ReduceTotal(items, i, sum) ==
  IF i > Len(items) THEN sum
  ELSE ReduceTotal(items, i + 1, sum + PriceOrZero(FindItem(items[i])))

calculatedTotal(items) == ReduceTotal(items, 1, 0)

ErrorResponse(msg) == [type |-> "error", error |-> msg]
OrderPostResponse(id, total) == [type |-> "order", id |-> id, total |-> total]

AddressMissing == "Ne ukazan adres"
ItemNotFound(id) == "Tovar s id " \o id \o " ne naiden"
TotalMismatch == "Nevernaya summa zakaza"

\* postOrder with its checks reordered: the items are checked before the address.
postOrderItemsFirst(orderInfo) ==
  LET missing == FirstMissingFrom(orderInfo.items, 1)
  IN IF missing # 0
     THEN ErrorResponse(ItemNotFound(orderInfo.items[missing]))
     ELSE IF Falsy(orderInfo.address)
     THEN ErrorResponse(AddressMissing)
     ELSE IF calculatedTotal(orderInfo.items) # orderInfo.total
     THEN ErrorResponse(TotalMismatch)
     ELSE OrderPostResponse("test-order-id", orderInfo.total)

\* postOrder with its checks reordered: the total is checked before the items.
postOrderTotalFirst(orderInfo) ==
  LET missing == FirstMissingFrom(orderInfo.items, 1)
  IN IF Falsy(orderInfo.address)
     THEN ErrorResponse(AddressMissing)
     ELSE IF calculatedTotal(orderInfo.items) # orderInfo.total
     THEN ErrorResponse(TotalMismatch)
     ELSE IF missing # 0
     THEN ErrorResponse(ItemNotFound(orderInfo.items[missing]))
     ELSE OrderPostResponse("test-order-id", orderInfo.total)

\* The value the promise returned by postOrder is fulfilled with.
postOrder(orderInfo) ==
  LET missing == FirstMissingFrom(orderInfo.items, 1)
  IN IF Falsy(orderInfo.address)
     THEN ErrorResponse(AddressMissing)
     ELSE IF missing # 0
     THEN ErrorResponse(ItemNotFound(orderInfo.items[missing]))
     ELSE IF calculatedTotal(orderInfo.items) # orderInfo.total
     THEN ErrorResponse(TotalMismatch)
     ELSE OrderPostResponse("test-order-id", orderInfo.total)

\* The order requests submitted: ids of the catalog (one of price 0) and
\* two ids that are not in it.
OrderIds == {"0", "3", "77", "99"}
PaymentType == {"offline", "online"}
OrderAddresses == {Undefined, Str(<<>>), Str(<<"L", "1">>)}

OrderRequests ==
  [payment : PaymentType,
   email : {"a@b.c"},
   phone : {"+79"},
   address : OrderAddresses,
   total : 0..MaxTotal,
   items : SeqUpTo(OrderIds, MaxOrderItems)]

\* api.postOrder(orderInfo) on the order object the caller has built.
PostOrder ==
  /\ Observable
  /\ call.op = "orderInfo"
  /\ call' = [call EXCEPT !.op = "postOrder"]
  /\ thrown' = "none"
  /\ returned' = postOrder(call.order)
  /\ UNCHANGED <<catalogVars, basketItems, fields>>

OrderNext == PostOrder

----------------------------------------------------------------------------
(* BasketList and BasketPopup.getTotal                                     *)

\* splice with an off-by-one start: the element after the one asked for is removed.
spliceNext(s, start, deleteCount) ==
  LET len == Len(s)
      actualStart == IF start < 0 THEN Max(len + start, 0) ELSE Min(start, len)
      from == Min(actualStart + 1, len)
      actualDeleteCount == Min(Max(deleteCount, 0), len - from)
  IN SubSeq(s, 1, from) \o SubSeq(s, from + actualDeleteCount + 1, len)

\* Array.prototype.splice(start, deleteCount) with integer arguments and no
\* inserted elements: the array afterwards.  A negative start counts from
\* the end, and both arguments are clamped to the array.
splice(s, start, deleteCount) ==
  LET len == Len(s)
      actualStart == IF start < 0 THEN Max(len + start, 0) ELSE Min(start, len)
      actualDeleteCount == Min(Max(deleteCount, 0), len - actualStart)
  IN SubSeq(s, 1, actualStart) \o
     SubSeq(s, actualStart + actualDeleteCount + 1, len)

\* items.reduce((total, item) => total + item.price, 0)
RECURSIVE ReducePrice(_, _, _)
ReducePrice(items, i, total) ==
  IF i > Len(items) THEN total
  ELSE ReducePrice(items, i + 1, total + items[i].price)

\* The items the user can put in the basket.
BasketChoices == {BasketItem(FakeData[i]) : i \in 1..MaxBasketChoice}

\* BasketList.addItem; push on an _items that was never assigned throws.
AddItem(item) ==
  /\ Observable
  /\ call' = [NoCall EXCEPT !.op = "addItem", !.item = item]
  /\ returned' = Undefined
  /\ IF basketItems.type = "array"
     THEN /\ Len(basketItems.elems) < MaxBasketLen
          /\ basketItems' = Arr(Append(basketItems.elems, item))
          /\ thrown' = "none"
     ELSE /\ basketItems' = basketItems
          /\ thrown' = "TypeError"
  /\ UNCHANGED <<catalogVars, fields>>

\* BasketList.delete
Delete(itemIndex) ==
  /\ Observable
  /\ call' = [NoCall EXCEPT !.op = "delete", !.index = itemIndex]
  /\ returned' = Undefined
  /\ IF basketItems.type = "array"
     THEN /\ basketItems' = Arr(splice(basketItems.elems, itemIndex, 1))
          /\ thrown' = "none"
     ELSE /\ basketItems' = basketItems
          /\ thrown' = "TypeError"
  /\ UNCHANGED <<catalogVars, fields>>

\* BasketPopup.getTotal on a popup whose list is the basket
GetTotal ==
  /\ Observable
  /\ call' = [NoCall EXCEPT !.op = "getTotal"]
  /\ IF basketItems.type = "array"
     THEN /\ returned' = Num(ReducePrice(basketItems.elems, 1, 0))
          /\ thrown' = "none"
     ELSE /\ returned' = Undefined
          /\ thrown' = "TypeError"
  /\ UNCHANGED <<catalogVars, basketItems, fields>>

BasketNext ==
  \/ \E item \in BasketChoices : AddItem(item)
  \/ \E i \in -(MaxBasketLen + 1)..(MaxBasketLen + 1) : Delete(i)
  \/ GetTotal

----------------------------------------------------------------------------
(* Form fields and OrderPopup                                              *)

\* Characters String.prototype.trim removes, among those typed here.
WhiteSpace == {" ", "\t", "\n"}

\* The characters typed into a text field.
InputChars == {" ", "\t", "x"}

RECURSIVE TrimStart(_)
TrimStart(cs) ==
  IF cs # <<>> /\ Head(cs) \in WhiteSpace THEN TrimStart(Tail(cs)) ELSE cs

RECURSIVE TrimEnd(_)
TrimEnd(cs) ==
  IF cs # <<>> /\ cs[Len(cs)] \in WhiteSpace
  THEN TrimEnd(SubSeq(cs, 1, Len(cs) - 1))
  ELSE cs

\* String.prototype.trim
trim(cs) == TrimEnd(TrimStart(cs))

createEditTextField(fieldName, hint) ==
  [fieldType |-> "editText", fieldName |-> fieldName, hint |-> hint,
   value |-> Str(<<>>)]

createRadioButtonField(fieldName, choices) ==
  [fieldType |-> "radioButton", fieldName |-> fieldName, choices |-> choices,
   selected |-> Str(<<>>)]

\* field.isValid(): this.value.trim().length > 0 for a text field,
\* this.selected !== '' for a radio button field.
fieldIsValid(field) ==
  IF field.fieldType = "editText"
  THEN Len(trim(field.value.chars)) > 0
  ELSE field.selected # Str(<<>>)

\* OrderPopup.isValid: this.fields.every(field => field.isValid())
isValid(fs) == \A i \in 1..Len(fs) : fieldIsValid(fs[i])

Online == Str(<<"O", "n", "l", "a", "y", "n">>)
OnDelivery == Str(<<"P", "r", "i", " ", "p", "o", "l", "u", "c", "h", "e", "n", "i", "i">>)

orderPopup1 ==
  <<createRadioButtonField("Sposob oplaty", {Online, OnDelivery}),
    createEditTextField("Adres dostavki", "Vvedite adres")>>

orderPopup2 ==
  <<createEditTextField("Email", "Vvedite Email"),
    createEditTextField("Telefon", "+7 (9")>>

\* The user interface writes field.value of a text field.
SetValue(i, cs) ==
  /\ Observable
  /\ i \in 1..Len(fields)
  /\ fields[i].fieldType = "editText"
  /\ fields' = [fields EXCEPT ![i].value = Str(cs)]
  /\ call' = [NoCall EXCEPT !.op = "setValue", !.index = i, !.value = Str(cs)]
  /\ thrown' = "none"
  /\ returned' = Undefined
  /\ UNCHANGED <<catalogVars, basketItems>>

\* The user interface writes field.selected of a radio button field:
\* one of the choices, the empty string, or undefined (selected?: string).
SetSelected(i, v) ==
  /\ Observable
  /\ i \in 1..Len(fields)
  /\ fields[i].fieldType = "radioButton"
  /\ v \in fields[i].choices \cup {Str(<<>>), Undefined}
  /\ fields' = [fields EXCEPT ![i].selected = v]
  /\ call' = [NoCall EXCEPT !.op = "setSelected", !.index = i, !.value = v]
  /\ thrown' = "none"
  /\ returned' = Undefined
  /\ UNCHANGED <<catalogVars, basketItems>>

\* OrderPopup.isValid()
IsValid ==
  /\ Observable
  /\ call' = [NoCall EXCEPT !.op = "isValid"]
  /\ thrown' = "none"
  /\ returned' = Bool(isValid(fields))
  /\ UNCHANGED <<catalogVars, basketItems, fields>>

FormNext ==
  \/ \E i \in 1..2, cs \in SeqUpTo(InputChars, MaxText) : SetValue(i, cs)
  \/ \E i \in 1..2, v \in {Online, OnDelivery, Str(<<>>), Undefined} :
       SetSelected(i, v)
  \/ IsValid

----------------------------------------------------------------------------
(* Specifications                                                          *)

\* The objects as their constructors leave them: List declares total and
\* _items without initialisers, so both are undefined in a new CatalogList
\* and in a new BasketList.
InitCatalog ==
  /\ catalogTotal = Undefined
  /\ catalogItems = Undefined
  /\ loadPc = "idle"
  /\ loadData = Undefined
  /\ loadPre = [total |-> Undefined, items |-> Undefined]
  /\ loadOutcome = "none"
  /\ console = ""

Init ==
  /\ InitCatalog
  /\ basketItems = Undefined
  /\ fields = orderPopup1
  /\ call = [NoCall EXCEPT !.op = "new"]
  /\ thrown = "none"
  /\ returned = Undefined

\* The basket as constructed (op "new"), or a basket whose owner has given
\* _items an empty array (op "assign"): _items is a protected field that
\* BasketList itself never assigns.
InitBasket ==
  /\ InitCatalog
  /\ fields = orderPopup1
  /\ \/ basketItems = Undefined /\ call = [NoCall EXCEPT !.op = "new"]
     \/ basketItems = Arr(<<>>) /\ call = [NoCall EXCEPT !.op = "assign"]
  /\ thrown = "none"
  /\ returned = Undefined

\* Either of the two forms the program constructs.
InitForm ==
  /\ InitCatalog
  /\ basketItems = Undefined
  /\ fields \in {orderPopup1, orderPopup2}
  /\ call = [NoCall EXCEPT !.op = "new"]
  /\ thrown = "none"
  /\ returned = Undefined

\* postOrder is a function of its argument alone: every order request of
\* the bounded set is an initial state, and the one step applies postOrder.
InitOrder ==
  /\ InitCatalog
  /\ basketItems = Undefined
  /\ fields = orderPopup1
  /\ call \in {[NoCall EXCEPT !.op = "orderInfo", !.order = o] :
                 o \in OrderRequests}
  /\ thrown = "none"
  /\ returned = Undefined

SpecCatalog == Init /\ [][CatalogNext]_vars
SpecOrder == InitOrder /\ [][OrderNext]_vars
SpecBasket == InitBasket /\ [][BasketNext]_vars
SpecForm == InitForm /\ [][FormNext]_vars

----------------------------------------------------------------------------
(* The order check: C1, C2, C3                                             *)

\* The ids of the canonical catalog.
CatalogIds == {FakeData[i].id : i \in 1..Len(FakeData)}

\* The canonical price of an id of the catalog.
CanonicalPrice(id) == (CHOOSE d \in {FakeData[i] : i \in 1..Len(FakeData)} : d.id = id).price

RECURSIVE SumOverIds(_, _)
SumOverIds(ids, items) ==
  IF ids = {} THEN 0
  ELSE LET id == CHOOSE x \in ids : TRUE
       IN Cardinality({i \in 1..Len(items) : items[i] = id}) * CanonicalPrice(id)
          + SumOverIds(ids \ {id}, items)

\* The sum, over every occurrence in items, of the canonical price.
ExpectedTotal(items) == SumOverIds({items[i] : i \in 1..Len(items)}, items)

\* The positions of items whose id is not in the catalog.
MissingPositions(items) == {i \in 1..Len(items) : items[i] \notin CatalogIds}

AddressAbsentOrEmpty(o) == o.address = Undefined \/ o.address = Str(<<>>)

\* C1: an order whose address is absent or empty is rejected with the
\* address-missing error, whatever its items and total are.
C1_AddressCheckedFirst ==
  (call.op = "postOrder" /\ AddressAbsentOrEmpty(call.order))
    => returned = ErrorResponse(AddressMissing)

\* C1 happens: an empty address with an unknown id and a wrong total.
C1_Witness ==
  /\ call.op = "postOrder"
  /\ call.order.address = Str(<<>>)
  /\ call.order.items = <<"99", "3">>
  /\ call.order.total = 5
  /\ returned = ErrorResponse(AddressMissing)

\* C2: an order with a non-empty address and an id that is not in the
\* catalog is rejected with the item-not-found error naming the id at the
\* smallest such position, whatever its total is.
C2_FirstMissingIdNamed ==
  (/\ call.op = "postOrder"
   /\ ~AddressAbsentOrEmpty(call.order)
   /\ MissingPositions(call.order.items) # {})
    => LET M == MissingPositions(call.order.items)
           first == CHOOSE i \in M : \A j \in M : i <= j
       IN returned = ErrorResponse(ItemNotFound(call.order.items[first]))

\* C2 happens: two different unknown ids and a total equal to the sum of
\* the known prices.
C2_Witness ==
  /\ call.op = "postOrder"
  /\ call.order.address = Str(<<"L", "1">>)
  /\ call.order.items = <<"99", "77">>
  /\ call.order.total = 0
  /\ returned = ErrorResponse(ItemNotFound("99"))

\* C3: an order with a non-empty address and all ids in the catalog is
\* confirmed with its own total if and only if that total equals the sum of
\* the canonical prices over every occurrence; otherwise it is rejected
\* with the total-mismatch error.
C3_ExactTotal ==
  (/\ call.op = "postOrder"
   /\ ~AddressAbsentOrEmpty(call.order)
   /\ MissingPositions(call.order.items) = {})
    => IF call.order.total = ExpectedTotal(call.order.items)
       THEN returned.type = "order" /\ returned.total = call.order.total
       ELSE returned = ErrorResponse(TotalMismatch)

\* C3 happens: the same id twice, each occurrence counted.
C3_Witness ==
  /\ call.op = "postOrder"
  /\ call.order.address = Str(<<"L", "1">>)
  /\ call.order.items = <<"3", "3">>
  /\ call.order.total = 6
  /\ returned = OrderPostResponse("test-order-id", 6)

----------------------------------------------------------------------------
(* The basket: C4, C5, C7, C8                                              *)

C5_NewBasketIsEmpty ==
  /\ call.op = "new" => basketItems = Arr(<<>>)
  /\ call.op = "addItem" =>
       /\ thrown = "none"
       /\ basketItems.type = "array"
       /\ Len(basketItems.elems) > 0
       /\ basketItems.elems[Len(basketItems.elems)] = call.item

RECURSIVE SumOfPrices(_)
SumOfPrices(positions) ==
  IF positions = {} THEN 0
  ELSE LET k == CHOOSE x \in positions : TRUE
       IN basketItems.elems[k].price + SumOfPrices(positions \ {k})

\* C8: getTotal returns the sum of the prices of the items in the basket,
\* each occurrence counted, and 0 for a basket with no items, a newly
\* constructed one included.
C8_TotalIsSumOfPrices ==
  call.op = "getTotal" =>
    /\ thrown = "none"
    /\ returned = Num(IF basketItems.type = "array"
                      THEN SumOfPrices(1..Len(basketItems.elems))
                      ELSE 0)

----------------------------------------------------------------------------
(* The catalog: C6, C10                                                    *)

\* C6: wherever the catalog can be read, (total, items) is the pair held
\* when load() was called while the call is outstanding or has failed, and
\* (the reported total, one constructed item per raw item, in order) once
\* it has succeeded; never the new total with the old items or the reverse.
C6_LoadAtomic ==
  Observable =>
    LET pre == <<loadPre.total, loadPre.items>>
        now == <<catalogTotal, catalogItems>>
    IN CASE loadOutcome = "none" -> now = <<Undefined, Undefined>>
         [] loadOutcome = "pending" -> now = pre
         [] loadOutcome = "rejected" -> now = pre
         [] loadOutcome = "resolved" ->
              /\ catalogTotal = Num(loadData.total)
              /\ catalogItems.type = "array"
              /\ Len(catalogItems.elems) = Len(loadData.items)
              /\ \A i \in 1..Len(loadData.items) :
                   catalogItems.elems[i] = CatalogItem(loadData.items[i])

\* C6 happens: a second load has replaced a loaded total and loaded items
\* by different ones.
C6_Witness ==
  /\ loadPc = "idle"
  /\ loadOutcome = "resolved"
  /\ loadPre.total # Undefined
  /\ loadPre.total # catalogTotal
  /\ loadPre.items # catalogItems
  /\ catalogTotal = Num(loadData.total)

\* C10: itemClick signals a selection only for 0 <= index < items.length.
C10_ItemClickValidatesIndex ==
  (call.op = "itemClick" /\ console = ClickLine(call.index))
    => /\ catalogItems.type = "array"
       /\ 0 <= call.index
       /\ call.index < Len(catalogItems.elems)

----------------------------------------------------------------------------
(* The form: C9                                                            *)

\* A field as the claim defines validity: a text field holds a character
\* that is not white space; a choice field has a selected value that is set
\* and not empty.
FieldValidAsSpecified(field) ==
  IF field.fieldType = "editText"
  THEN \E k \in 1..Len(field.value.chars) : field.value.chars[k] \notin WhiteSpace
  ELSE field.selected # Undefined /\ field.selected # Str(<<>>)

\* C9: a form is valid if and only if every field is valid; in particular
\* a choice field with no selected value makes it invalid.
C9_FormValidIffAllFieldsValid ==
  call.op = "isValid" =>
    returned = Bool(\A i \in 1..Len(fields) : FieldValidAsSpecified(fields[i]))

====
